---- MODULE Spec2Model ----
(***************************************************************************)
(* Model of generate_training_pdf.py: the ERPTrainingDoc object (canvas,   *)
(* page counter, vertical cursor), its text primitives and the greedy      *)
(* word-wrapping routine draw_wrapped_text.                                *)
(*                                                                         *)
(* A string is a sequence of one-character strings.  Lengths are whole     *)
(* points.  A font is modelled by its advance widths; the width of a       *)
(* string is the sum of the advance widths of its characters, as           *)
(* Canvas.stringWidth computes it.  Colours and font sizes are not         *)
(* modelled.                                                               *)
(***************************************************************************)
EXTENDS Integers, Sequences, FiniteSets, TLC

\* ---------------------------------------------------------------- bounds
MaxTextLen == 5
MaxWidth == 3
MaxSteps == 1
MaxSeqSteps == 3
MaxBlocks == 2
MaxContentSteps == 2

\* ------------------------------------------------------- page geometry
\* A4 is 595.27 x 841.89 points; the model works in whole points.
W == 595
H == 842
MARGIN == 45
CONTENT_W == W - 2 * MARGIN

\* ------------------------------------------------------------- strings
Whitespace == {" ", "\t", "\n"}

IsSpace(ch) == ch \in Whitespace

\* The positions where a word starts: a character that is not whitespace,
\* at the start of the string or after whitespace.
WordStarts(s) ==
  {i \in 1..Len(s) : ~IsSpace(s[i]) /\ (i = 1 \/ IsSpace(s[i - 1]))}

\* The word that starts at position b: it runs to the last character before
\* the next whitespace or the end of the string.
WordAt(s, b) ==
  LET e == CHOOSE i \in b..Len(s) :
             /\ \A m \in b..i : ~IsSpace(s[m])
             /\ (i = Len(s) \/ IsSpace(s[i + 1]))
  IN SubSeq(s, b, e)

\* str.split(): the maximal runs of non-whitespace characters, in order.
Split(s) ==
  LET starts == WordStarts(s)
  IN [k \in 1..Cardinality(starts) |->
        WordAt(s, CHOOSE b \in starts : Cardinality({m \in starts : m < b}) = k - 1)]

\* Advance width of one character in a font.  GeistMono is monospaced,
\* the other fonts are proportional.
CharWidth(ch, font) ==
  IF font = "GeistMono" THEN 1
  ELSE IF ch = "M" THEN 2 ELSE 1

\* The width of a string is the sum of the widths of its characters.
RECURSIVE stringWidth(_, _)
stringWidth(s, font) ==
  IF s = <<>> THEN 0
  ELSE IF Len(s) = 1 THEN CharWidth(s[1], font)
  ELSE LET h == Len(s) \div 2
       IN stringWidth(SubSeq(s, 1, h), font) + stringWidth(SubSeq(s, h + 1, Len(s)), font)

Digits == <<"0", "1", "2", "3", "4", "5", "6", "7", "8", "9">>

RECURSIVE ToStr(_)
ToStr(n) ==
  IF n < 10 THEN <<Digits[n + 1]>>
  ELSE Append(ToStr(n \div 10), Digits[(n % 10) + 1])

\* f'{n:02d}'
Fmt02(n) == IF n < 10 THEN <<"0">> \o ToStr(n) ELSE ToStr(n)

\* -------------------------------------------------------------- canvas
\* The canvas: the stack of saved graphics states, the current font, the
\* drawing operations of the page in progress, the number of pages already
\* emitted by showPage, the number of those that were emitted with nothing
\* drawn on them, the number of calls of save, and the number of drawing and
\* page operations issued after a save.
DefaultFont == "Helvetica"

NewCanvas ==
  [stack |-> <<>>, font |-> DefaultFont, page |-> <<>>, shown |-> 0,
   blank |-> 0, saved |-> 0, late |-> 0]

\* An operation issued after a save is counted.
Late(cv) == IF cv.saved > 0 THEN cv.late + 1 ELSE cv.late

saveState(cv) == [cv EXCEPT !.stack = Append(@, cv.font)]

restoreState(cv) ==
  [cv EXCEPT !.font = cv.stack[Len(cv.stack)],
             !.stack = SubSeq(cv.stack, 1, Len(cv.stack) - 1)]

setFont(cv, font) == [cv EXCEPT !.font = font]

Emit(cv, op, x, y, s) ==
  [cv EXCEPT !.page = Append(@, [op |-> op, x |-> x, y |-> y, s |-> s, font |-> cv.font]),
             !.late = Late(cv)]

drawString(cv, x, y, s) == Emit(cv, "drawString", x, y, s)

drawRightString(cv, x, y, s) == Emit(cv, "drawRightString", x, y, s)

drawCentredString(cv, x, y, s) == Emit(cv, "drawCentredString", x, y, s)

canvas_line(cv, x1, y1) == Emit(cv, "line", x1, y1, <<>>)

\* A loop that issues one drawing operation per iteration, in the current
\* font: ops[k] is [op, x, y, s] of iteration k.
EmitAll(cv, ops) ==
  [cv EXCEPT !.page = @ \o [k \in 1..Len(ops) |->
                              [op |-> ops[k].op, x |-> ops[k].x, y |-> ops[k].y,
                               s |-> ops[k].s, font |-> cv.font]],
             !.late = IF cv.saved > 0 THEN @ + Len(ops) ELSE @]

\* showPage emits the page in progress, whatever is on it, and starts an
\* empty one.
showPage(cv) ==
  [cv EXCEPT !.page = <<>>, !.font = DefaultFont, !.shown = @ + 1,
             !.blank = IF cv.page = <<>> THEN @ + 1 ELSE @,
             !.late = Late(cv)]

\* The canvas's save: a page in progress that has content is emitted and
\* the file is written.
canvas_save(cv) ==
  LET c1 == IF cv.page # <<>> THEN showPage(cv) ELSE cv
  IN [c1 EXCEPT !.saved = @ + 1]

\* ------------------------------------------------- the document object
\* ERPTrainingDoc: self.c, self.page_num, self.y.
NewDoc == [c |-> NewCanvas, page_num |-> 0, y |-> H - MARGIN]

draw_rect(d, x, y) ==
  [d EXCEPT !.c = restoreState(Emit(saveState(d.c), "rect", x, y, <<>>))]

draw_line(d, x1, y1) ==
  [d EXCEPT !.c = restoreState(canvas_line(saveState(d.c), x1, y1))]

\* The truncation loop of draw_text.
RECURSIVE Truncate(_, _, _)
Truncate(s, font, max_width) ==
  IF stringWidth(s, font) > max_width /\ Len(s) > 3
    THEN Truncate(SubSeq(s, 1, Len(s) - 4) \o <<".", ".", ".">>, font, max_width)
    ELSE s

\* An optional argument is None or Some(number).
None == <<>>

Some(n) == <<n>>

\* max_width is None or a number; None and 0 are both false in `if max_width:`.
draw_text(d, s, x, y, font, align, max_width) ==
  LET c1 == setFont(saveState(d.c), font)
      t  == IF max_width # None /\ max_width[1] # 0
              THEN Truncate(s, font, max_width[1]) ELSE s
      c2 == IF align = "center" THEN drawCentredString(c1, x, y, t)
            ELSE IF align = "right" THEN drawRightString(c1, x, y, t)
            ELSE drawString(c1, x, y, t)
  IN [d EXCEPT !.c = restoreState(c2)]


\* ---------------------------------------------------- draw_wrapped_text
\* Variant of Candidate: the space is prepended even to the first word of a
\* line.
CandidateAlwaysSpace(current_line, word) == current_line \o <<" ">> \o word

\* Variant of Candidate: the separating space is left out.
CandidateNoSpace(current_line, word) == current_line \o word

\* test = current_line + (" " if current_line else "") + word
Candidate(current_line, word) ==
  IF current_line # <<>> THEN current_line \o <<" ">> \o word ELSE word

\* Variant of WrapStep: the completed line is not appended before the new
\* line is started.
WrapStepDropsLine(st, word, max_width, font) ==
  LET test == Candidate(st.current_line, word) IN
  IF stringWidth(test, font) <= max_width
    THEN [st EXCEPT !.current_line = test]
    ELSE [lines |-> st.lines, current_line |-> word]

\* Variant of WrapStep: the word alone is measured, not the candidate line.
WrapStepMeasuresWord(st, word, max_width, font) ==
  LET test == Candidate(st.current_line, word) IN
  IF stringWidth(word, font) <= max_width
    THEN [st EXCEPT !.current_line = test]
    ELSE [lines |-> IF st.current_line # <<>>
                      THEN Append(st.lines, st.current_line) ELSE st.lines,
          current_line |-> word]

\* Variant of WrapStep: a word that starts a line is truncated to the width
\* as draw_text does.
WrapStepTruncatesWord(st, word, max_width, font) ==
  LET test == Candidate(st.current_line, word) IN
  IF stringWidth(test, font) <= max_width
    THEN [st EXCEPT !.current_line = test]
    ELSE [lines |-> IF st.current_line # <<>>
                      THEN Append(st.lines, st.current_line) ELSE st.lines,
          current_line |-> Truncate(word, font, max_width)]

\* Variant of WrapStep: the comparison is strict.
WrapStepStrict(st, word, max_width, font) ==
  LET test == Candidate(st.current_line, word) IN
  IF stringWidth(test, font) < max_width
    THEN [st EXCEPT !.current_line = test]
    ELSE [lines |-> IF st.current_line # <<>>
                      THEN Append(st.lines, st.current_line) ELSE st.lines,
          current_line |-> word]

\* Variant of WrapStep: the accumulator is committed even when it is empty.
WrapStepAppendsEmpty(st, word, max_width, font) ==
  LET test == Candidate(st.current_line, word) IN
  IF stringWidth(test, font) <= max_width
    THEN [st EXCEPT !.current_line = test]
    ELSE [lines |-> Append(st.lines, st.current_line), current_line |-> word]

\* Variant of WrapStep: a non-positive max_width means "no limit".
WrapStepNoLimit(st, word, max_width, font) ==
  LET test == Candidate(st.current_line, word) IN
  IF max_width <= 0 \/ stringWidth(test, font) <= max_width
    THEN [st EXCEPT !.current_line = test]
    ELSE [lines |-> IF st.current_line # <<>>
                      THEN Append(st.lines, st.current_line) ELSE st.lines,
          current_line |-> word]

\* One iteration of the loop over the words; st = [lines, current_line].
WrapStep(st, word, max_width, font) ==
  LET test == Candidate(st.current_line, word) IN
  IF stringWidth(test, font) <= max_width
    THEN [st EXCEPT !.current_line = test]
    ELSE [lines |-> IF st.current_line # <<>>
                      THEN Append(st.lines, st.current_line) ELSE st.lines,
          current_line |-> word]

RECURSIVE WrapLoop(_, _, _, _, _)
WrapLoop(words, i, st, max_width, font) ==
  IF i > Len(words) THEN st
  ELSE WrapLoop(words, i + 1, WrapStep(st, words[i], max_width, font), max_width, font)

\* Variant of Flush: the accumulator is committed even when it is empty.
FlushAlways(st) == Append(st.lines, st.current_line)

\* The lines after the loop over the words.
Flush(st) ==
  IF st.current_line # <<>> THEN Append(st.lines, st.current_line) ELSE st.lines

\* The list `lines` built from the text.
WrapLines(text_, max_width_, font_) ==
  Flush(WrapLoop(Split(text_), 1, [lines |-> <<>>, current_line |-> <<>>],
                 max_width_, font_))

\* Variant of DrawLine: the cursor moves by the default leading, not by the
\* argument.
DrawLineFixedLeading(st, line, x_, leading_) ==
  [c |-> drawString(st.c, x_, st.y, line), y |-> st.y - 14]

\* Variant of DrawLine: the cursor moves before the line is drawn.
DrawLineMovesFirst(st, line, x_, leading_) ==
  [c |-> drawString(st.c, x_, st.y - leading_, line), y |-> st.y - leading_]

\* Variant of DrawLine: a line that would fall below the bottom limit is
\* drawn at the top of a new page.
DrawLinePaginates(st, line, x_, leading_) ==
  IF st.y < MARGIN + 20
    THEN [c |-> drawString(showPage(st.c), x_, H - MARGIN, line),
          y |-> H - MARGIN - leading_]
    ELSE [c |-> drawString(st.c, x_, st.y, line), y |-> st.y - leading_]

\* One iteration of the drawing loop; st = [c, y].
DrawLine(st, line, x_, leading_) ==
  [c |-> drawString(st.c, x_, st.y, line), y |-> st.y - leading_]

RECURSIVE DrawLines(_, _, _, _, _)
DrawLines(st, lines, i, x_, leading_) ==
  IF i > Len(lines) THEN st
  ELSE DrawLines(DrawLine(st, lines[i], x_, leading_), lines, i + 1, x_, leading_)

\* Variant of draw_wrapped_text: the lines start at the document cursor
\* self.y, not at the argument y.
draw_wrapped_text_FromCursor(d, text_, x_, y_, max_width_, font_, leading_) ==
  LET c1    == setFont(saveState(d.c), font_)
      lines == WrapLines(text_, max_width_, font_)
      r     == DrawLines([c |-> c1, y |-> d.y], lines, 1, x_, leading_)
  IN [d |-> [d EXCEPT !.c = restoreState(r.c)], ret |-> r.y, raised |-> FALSE]

\* Variant of draw_wrapped_text: the graphics state is not restored.
draw_wrapped_text_NoRestore(d, text_, x_, y_, max_width_, font_, leading_) ==
  LET c1    == setFont(saveState(d.c), font_)
      lines == WrapLines(text_, max_width_, font_)
      r     == DrawLines([c |-> c1, y |-> y_], lines, 1, x_, leading_)
  IN [d |-> [d EXCEPT !.c = r.c], ret |-> r.y, raised |-> FALSE]

\* Variant of draw_wrapped_text: a non-positive max_width or leading is
\* rejected before anything is drawn.
draw_wrapped_text_Rejects(d, text_, x_, y_, max_width_, font_, leading_) ==
  LET c1    == setFont(saveState(d.c), font_)
      lines == WrapLines(text_, max_width_, font_)
      r     == DrawLines([c |-> c1, y |-> y_], lines, 1, x_, leading_)
  IN IF max_width_ <= 0 \/ leading_ <= 0
       THEN [d |-> d, ret |-> y_, raised |-> TRUE]
       ELSE [d |-> [d EXCEPT !.c = restoreState(r.c)], ret |-> r.y, raised |-> FALSE]

\* The method: the document after the call, the value returned and whether
\* the call ended in an exception (the body has no raise statement).
draw_wrapped_text(d, text_, x_, y_, max_width_, font_, leading_) ==
  LET c1    == setFont(saveState(d.c), font_)
      lines == WrapLines(text_, max_width_, font_)
      r     == DrawLines([c |-> c1, y |-> y_], lines, 1, x_, leading_)
  IN [d |-> [d EXCEPT !.c = restoreState(r.c)], ret |-> r.y, raised |-> FALSE]

\* ------------------------------------------------- page infrastructure
_draw_page_frame(d, section_code) ==
  LET d1 == draw_rect(d, MARGIN - 10, MARGIN - 10)
      d2 == draw_line(d1, MARGIN, H - 30)
      d3 == draw_line(d2, MARGIN, H - 32)
      d4 == IF section_code # <<>>
              THEN draw_text(d3, section_code, MARGIN, H - 25, "GeistMono", "left", None)
              ELSE d3
      d5 == draw_text(d4, Fmt02(d.page_num), W - MARGIN, MARGIN - 5,
                      "GeistMono", "right", None)
  IN draw_line(d5, MARGIN, MARGIN + 5)

\* Variant of new_page: showPage is called whatever page_num is.
new_page_AlwaysShows(d, section_code) ==
  LET d1 == [d EXCEPT !.c = showPage(d.c)]
      d2 == [d1 EXCEPT !.page_num = @ + 1, !.y = H - MARGIN]
  IN _draw_page_frame(d2, section_code)

new_page(d, section_code) ==
  LET d1 == IF d.page_num > 0 THEN [d EXCEPT !.c = showPage(d.c)] ELSE d
      d2 == [d1 EXCEPT !.page_num = @ + 1, !.y = H - MARGIN]
  IN _draw_page_frame(d2, section_code)

\* Variant of check_space: the comparison is not strict.
check_space_NotStrict(d, needed) ==
  [d |-> d, ret |-> ~(d.y - needed <= MARGIN + 20)]

\* The method: the document after the call and the value returned.
check_space(d, needed) ==
  [d |-> d, ret |-> IF d.y - needed < MARGIN + 20 THEN FALSE ELSE TRUE]

\* Variant of draw_paragraph: a paragraph that has no room starts a new
\* page by itself.
draw_paragraph_Paginates(d, text_, indent) ==
  LET d0 == IF d.y - 15 < MARGIN + 20 THEN new_page(d, <<>>) ELSE d
      r  == draw_wrapped_text(d0, text_, MARGIN + indent, d0.y, CONTENT_W - indent,
                              "CrimsonPro", 15)
  IN [r.d EXCEPT !.y = r.ret - 4]

draw_paragraph(d, text_, indent) ==
  LET r == draw_wrapped_text(d, text_, MARGIN + indent, d.y, CONTENT_W - indent,
                             "CrimsonPro", 15)
  IN [r.d EXCEPT !.y = r.ret - 4]

\* ------------------------------------------------------ section headers
draw_circle(d, x, y) ==
  [d EXCEPT !.c = restoreState(Emit(saveState(d.c), "circle", x, y, <<>>))]

\* subtitle = "" is the empty sequence.
draw_section_header(d, number, title, subtitle) ==
  LET d1 == [d EXCEPT !.y = @ - 5]
      d2 == draw_text(d1, number, MARGIN, d1.y, "GeistMono", "left", None)
      d3 == [d2 EXCEPT !.y = @ - 22]
      d4 == draw_text(d3, title, MARGIN, d3.y, "InstrumentSans-Bold", "left", None)
      d5 == [d4 EXCEPT !.y = @ - 8]
      d6 == draw_line(draw_line(d5, MARGIN, d5.y), MARGIN + 182, d5.y)
      d7 == [d6 EXCEPT !.y = @ - 6]
      d8 == IF subtitle # <<>>
              THEN LET e1 == [d7 EXCEPT !.y = @ - 10]
                       e2 == draw_text(e1, subtitle, MARGIN, e1.y,
                                       "IBMPlexSerif-Italic", "left", None)
                   IN [e2 EXCEPT !.y = @ - 8]
              ELSE d7
  IN [d8 EXCEPT !.y = @ - 12]

draw_subsection(d, title, label) ==
  LET d1 == [d EXCEPT !.y = @ - 8]
      d2 == IF label # <<>>
              THEN draw_text(d1, label, MARGIN, d1.y + 1, "GeistMono", "left", None)
              ELSE d1
      d3 == draw_text(d2, title, MARGIN + (IF label # <<>> THEN 40 ELSE 0), d2.y,
                      "InstrumentSans-Bold", "left", None)
      d4 == [d3 EXCEPT !.y = @ - 4]
      d5 == draw_line(d4, MARGIN, d4.y)
  IN [d5 EXCEPT !.y = @ - 14]

\* ----------------------------------------------------- content elements
draw_sub_subsection(d, title) ==
  LET d1 == [d EXCEPT !.y = @ - 6]
      d2 == draw_text(d1, title, MARGIN, d1.y, "WorkSans-Bold", "left", None)
  IN [d2 EXCEPT !.y = @ - 14]

\* The default bullet character, U+2022.
bullet_char == <<"o">>

\* Variant of draw_bullet: no gap is left after the text.
draw_bullet_NoGap(d, text_, indent) ==
  LET d1 == draw_text(d, bullet_char, MARGIN + indent - 10, d.y, "CrimsonPro", "left", None)
      r  == draw_wrapped_text(d1, text_, MARGIN + indent + 2, d1.y, CONTENT_W - indent - 2,
                              "CrimsonPro", 14)
  IN [r.d EXCEPT !.y = r.ret]

draw_bullet(d, text_, indent) ==
  LET d1 == draw_text(d, bullet_char, MARGIN + indent - 10, d.y, "CrimsonPro", "left", None)
      r  == draw_wrapped_text(d1, text_, MARGIN + indent + 2, d1.y, CONTENT_W - indent - 2,
                              "CrimsonPro", 14)
  IN [r.d EXCEPT !.y = r.ret - 3]

\* f"{num}." is the decimal form of num and a full stop.
draw_numbered_item(d, num, text_, indent) ==
  LET d1 == draw_text(d, ToStr(num) \o <<".">>, MARGIN + indent - 12, d.y,
                      "GeistMono", "left", None)
      r  == draw_wrapped_text(d1, text_, MARGIN + indent + 4, d1.y, CONTENT_W - indent - 4,
                              "CrimsonPro", 14)
  IN [r.d EXCEPT !.y = r.ret - 3]

draw_code_text(d, text_, indent) ==
  LET d1 == draw_text(d, text_, MARGIN + indent, d.y, "GeistMono", "left", None)
  IN [d1 EXCEPT !.y = @ - 12]

draw_note_box(d, title, text_) ==
  LET box_h == 40
      d1 == draw_rect(d, MARGIN, d.y - box_h)
      d2 == draw_rect(d1, MARGIN, d1.y - box_h)
      d3 == draw_text(d2, title, MARGIN + 12, d2.y - 14, "InstrumentSans-Bold", "left", None)
      r  == draw_wrapped_text(d3, text_, MARGIN + 12, d3.y - 28, CONTENT_W - 24,
                              "CrimsonPro", 12)
  IN [r.d EXCEPT !.y = r.ret - 10]

\* text.split('\n'): the pieces between the newlines, empty ones included;
\* a text without newline is one piece.
SplitLines(s) ==
  LET nl == {i \in 1..Len(s) : s[i] = "\n"}
      n  == Cardinality(nl)
      \* the position of the k-th newline; 0 and Len(s) + 1 stand for the ends
      at(k) == IF k = 0 THEN 0
               ELSE IF k > n THEN Len(s) + 1
               ELSE CHOOSE i \in nl : Cardinality({m \in nl : m < i}) = k - 1
  IN [k \in 1..(n + 1) |-> SubSeq(s, at(k - 1) + 1, at(k) - 1)]

\* The loop of draw_info_box: one draw_text(line, MARGIN + 12, ty,
\* 'CrimsonPro', ...) per line and ty -= 13.  Every draw_text restores the
\* graphics state it saved.
InfoLines(d, lines, ty) ==
  LET c1 == EmitAll(setFont(saveState(d.c), "CrimsonPro"),
                    [k \in 1..Len(lines) |->
                       [op |-> "drawString", s |-> lines[k],
                        x |-> MARGIN + 12, y |-> ty - 13 * (k - 1)]])
  IN [d EXCEPT !.c = restoreState(c1)]

draw_info_box(d, title, text_) ==
  LET lines == SplitLines(text_)
      box_h == 18 + Len(lines) * 13
      d1 == draw_rect(d, MARGIN, d.y - box_h)
      d2 == draw_rect(d1, MARGIN, d1.y - box_h)
      d3 == draw_text(d2, title, MARGIN + 12, d2.y - 13, "InstrumentSans-Bold", "left", None)
      d4 == InfoLines(d3, lines, d3.y - 27)
  IN [d4 EXCEPT !.y = @ - (box_h + 8)]

\* ------------------------------------------------------- table elements
\* The loop of draw_table_header over cols, a list of <<text, width>>.
RECURSIVE HeaderCells(_, _, _, _)
HeaderCells(d, cols, i, cx) ==
  IF i > Len(cols) THEN d
  ELSE HeaderCells(draw_text(d, cols[i][1], cx, d.y - 14, "InstrumentSans-Bold", "left", None),
                   cols, i + 1, cx + cols[i][2])

draw_table_header(d, cols) ==
  LET h  == 20
      d1 == draw_rect(d, MARGIN, d.y - h)
      d2 == HeaderCells(d1, cols, 1, MARGIN + 8)
  IN [d2 EXCEPT !.y = @ - h]

\* len(zip(values, cols))
ZipLen(values, cols) == IF Len(values) < Len(cols) THEN Len(values) ELSE Len(cols)

\* The loop of draw_table_row: the first cell in GeistMono, the others in
\* CrimsonPro, each truncated to max_width = w - 12.
RECURSIVE RowCells(_, _, _, _, _)
RowCells(d, values, cols, i, cx) ==
  IF i > ZipLen(values, cols) THEN d
  ELSE RowCells(draw_text(d, values[i], cx, d.y - 12,
                          IF i = 1 THEN "GeistMono" ELSE "CrimsonPro", "left",
                          Some(cols[i][2] - 12)),
                values, cols, i + 1, cx + cols[i][2])

draw_table_row(d, values, cols, alt) ==
  LET h  == 18
      d1 == IF alt THEN draw_rect(d, MARGIN, d.y - h) ELSE d
      d2 == RowCells(d1, values, cols, 1, MARGIN + 8)
  IN [d2 EXCEPT !.y = @ - h]

\* --------------------------------------------------------------- pages
\* Variant of GenerateScript: the save comes before the end page.
GenerateScriptSavesEarly ==
  << "page_cover", "page_toc", "page_system_overview", "page_initial_setup",
     "page_master_data", "page_purchase_cycle", "page_sales_cycle",
     "page_inventory", "page_manufacturing", "page_accounting", "page_gst",
     "page_bank_management", "page_reports", "page_stock_reference",
     "page_doc_sequences", "page_cheat_sheet", "save", "page_end" >>

\* The page functions generate() calls, in order, and the final save.
GenerateScript ==
  << "page_cover",
     "page_toc",
     "page_system_overview",
     "page_initial_setup",
     "page_master_data",
     "page_purchase_cycle",
     "page_sales_cycle",
     "page_inventory",
     "page_manufacturing",
     "page_accounting",
     "page_gst",
     "page_bank_management",
     "page_reports",
     "page_stock_reference",
     "page_doc_sequences",
     "page_cheat_sheet",
     "page_end",
     "save" >>

\* Each section function starts with self.new_page(code) and
\* self.draw_section_header(number, title, subtitle).
Sections ==
  << [fn |-> "page_system_overview",
     code |-> <<"S","E","C","-","0","1">>, number |-> <<"0","1">>,
     title |-> <<"S","y","s","t","e","m"," ","O","v","e","r","v","i","e","w"," ","&"," ","A","r","c","h","i","t","e","c","t","u","r","e">>,
     subtitle |-> <<"U","n","d","e","r","s","t","a","n","d","i","n","g"," ","t","h","e"," ","f","o","u","n","d","a","t","i","o","n"," ","o","f"," ","t","h","e"," ","E","R","P"," ","s","y","s","t","e","m">>],
    [fn |-> "page_initial_setup",
     code |-> <<"S","E","C","-","0","2">>, number |-> <<"0","2">>,
     title |-> <<"I","n","i","t","i","a","l"," ","S","e","t","u","p"," ","&"," ","C","o","n","f","i","g","u","r","a","t","i","o","n">>,
     subtitle |-> <<"T","h","e"," ","f","i","r","s","t","-","t","i","m","e"," ","s","e","t","u","p"," ","s","e","q","u","e","n","c","e"," ","-"," ","f","o","l","l","o","w"," ","t","h","e","s","e"," ","s","t","e","p","s"," ","i","n"," ","o","r","d","e","r">>],
    [fn |-> "page_master_data",
     code |-> <<"S","E","C","-","0","3">>, number |-> <<"0","3">>,
     title |-> <<"M","a","s","t","e","r"," ","D","a","t","a"," ","M","a","n","a","g","e","m","e","n","t">>,
     subtitle |-> <<"S","e","t","t","i","n","g"," ","u","p"," ","t","h","e"," ","f","o","u","n","d","a","t","i","o","n","a","l"," ","e","n","t","i","t","i","e","s"," ","o","f"," ","t","h","e"," ","s","y","s","t","e","m">>],
    [fn |-> "page_purchase_cycle",
     code |-> <<"S","E","C","-","0","4">>, number |-> <<"0","4">>,
     title |-> <<"P","u","r","c","h","a","s","e"," ","C","y","c","l","e">>,
     subtitle |-> <<"C","o","m","p","l","e","t","e"," ","p","r","o","c","u","r","e","-","t","o","-","p","a","y"," ","w","o","r","k","f","l","o","w">>],
    [fn |-> "page_sales_cycle",
     code |-> <<"S","E","C","-","0","5">>, number |-> <<"0","5">>,
     title |-> <<"S","a","l","e","s"," ","C","y","c","l","e">>,
     subtitle |-> <<"C","o","m","p","l","e","t","e"," ","o","r","d","e","r","-","t","o","-","c","a","s","h"," ","w","o","r","k","f","l","o","w">>],
    [fn |-> "page_inventory",
     code |-> <<"S","E","C","-","0","6">>, number |-> <<"0","6">>,
     title |-> <<"I","n","v","e","n","t","o","r","y"," ","M","a","n","a","g","e","m","e","n","t">>,
     subtitle |-> <<"S","t","o","c","k"," ","t","r","a","c","k","i","n","g",","," ","m","o","v","e","m","e","n","t","s",","," ","a","n","d"," ","v","a","l","u","a","t","i","o","n">>],
    [fn |-> "page_manufacturing",
     code |-> <<"S","E","C","-","0","7">>, number |-> <<"0","7">>,
     title |-> <<"M","a","n","u","f","a","c","t","u","r","i","n","g"," ","&"," ","P","r","o","d","u","c","t","i","o","n">>,
     subtitle |-> <<"W","o","r","k"," ","o","r","d","e","r","s",","," ","m","a","t","e","r","i","a","l"," ","m","a","n","a","g","e","m","e","n","t",","," ","a","n","d"," ","p","r","o","d","u","c","t","i","o","n"," ","t","r","a","c","k","i","n","g">>],
    [fn |-> "page_accounting",
     code |-> <<"S","E","C","-","0","8">>, number |-> <<"0","8">>,
     title |-> <<"A","c","c","o","u","n","t","i","n","g"," ","&"," ","F","i","n","a","n","c","e">>,
     subtitle |-> <<"D","o","u","b","l","e","-","e","n","t","r","y"," ","b","o","o","k","k","e","e","p","i","n","g",","," ","l","e","d","g","e","r",","," ","a","n","d"," ","f","i","n","a","n","c","i","a","l"," ","s","t","a","t","e","m","e","n","t","s">>],
    [fn |-> "page_gst",
     code |-> <<"S","E","C","-","0","9">>, number |-> <<"0","9">>,
     title |-> <<"G","S","T"," ","&"," ","T","a","x"," ","C","o","m","p","l","i","a","n","c","e">>,
     subtitle |-> <<"T","a","x"," ","c","a","l","c","u","l","a","t","i","o","n",","," ","r","e","v","e","r","s","e"," ","c","h","a","r","g","e",","," ","T","D","S","/","T","C","S">>],
    [fn |-> "page_bank_management",
     code |-> <<"S","E","C","-","1","0">>, number |-> <<"1","0">>,
     title |-> <<"B","a","n","k"," ","&"," ","C","a","s","h"," ","M","a","n","a","g","e","m","e","n","t">>,
     subtitle |-> <<"B","a","n","k"," ","a","c","c","o","u","n","t","s",","," ","r","e","c","o","n","c","i","l","i","a","t","i","o","n",","," ","p","a","y","m","e","n","t"," ","p","r","o","c","e","s","s","i","n","g">>],
    [fn |-> "page_reports",
     code |-> <<"S","E","C","-","1","1">>, number |-> <<"1","1">>,
     title |-> <<"R","e","p","o","r","t","s"," ","&"," ","A","n","a","l","y","t","i","c","s">>,
     subtitle |-> <<"A","v","a","i","l","a","b","l","e"," ","r","e","p","o","r","t","s"," ","a","c","r","o","s","s"," ","a","l","l"," ","m","o","d","u","l","e","s">>],
    [fn |-> "page_stock_reference",
     code |-> <<"S","E","C","-","1","2">>, number |-> <<"1","2">>,
     title |-> <<"S","t","o","c","k"," ","I","m","p","a","c","t"," ","R","e","f","e","r","e","n","c","e">>,
     subtitle |-> <<"C","o","m","p","l","e","t","e"," ","r","e","f","e","r","e","n","c","e",":"," ","w","h","e","n"," ","s","t","o","c","k"," ","i","n","c","r","e","a","s","e","s",","," ","d","e","c","r","e","a","s","e","s",","," ","a","n","d"," ","g","e","t","s"," ","r","e","s","e","r","v","e","d">>],
    [fn |-> "page_doc_sequences",
     code |-> <<"S","E","C","-","1","3">>, number |-> <<"1","3">>,
     title |-> <<"D","o","c","u","m","e","n","t"," ","N","u","m","b","e","r","i","n","g"," ","&"," ","S","e","q","u","e","n","c","e","s">>,
     subtitle |-> <<"A","u","t","o","m","a","t","i","c"," ","d","o","c","u","m","e","n","t"," ","n","u","m","b","e","r"," ","g","e","n","e","r","a","t","i","o","n">>],
    [fn |-> "page_cheat_sheet",
     code |-> <<"S","E","C","-","1","4">>, number |-> <<"1","4">>,
     title |-> <<"Q","u","i","c","k"," ","R","e","f","e","r","e","n","c","e"," ","C","h","e","a","t"," ","S","h","e","e","t">>,
     subtitle |-> <<"S","t","a","t","u","s"," ","f","l","o","w","s",","," ","k","e","y"," ","m","e","t","h","o","d","s",","," ","a","n","d"," ","c","o","m","m","o","n"," ","o","p","e","r","a","t","i","o","n","s"," ","a","t"," ","a"," ","g","l","a","n","c","e">>] >>

toc_items ==
  << << <<"0","1">>,
        <<"S","y","s","t","e","m"," ","O","v","e","r","v","i","e","w"," ","&"," ","A","r","c","h","i","t","e","c","t","u","r","e">>,
        <<"T","e","c","h","n","o","l","o","g","y"," ","s","t","a","c","k",","," ","m","u","l","t","i","-","t","e","n","a","n","c","y",","," ","a","u","t","h","e","n","t","i","c","a","t","i","o","n">> >>,
     << <<"0","2">>,
        <<"I","n","i","t","i","a","l"," ","S","e","t","u","p"," ","&"," ","C","o","n","f","i","g","u","r","a","t","i","o","n">>,
        <<"C","o","m","p","a","n","y",","," ","b","r","a","n","c","h","e","s",","," ","f","i","s","c","a","l"," ","y","e","a","r",","," ","w","a","r","e","h","o","u","s","e","s",","," ","c","h","a","r","t"," ","o","f"," ","a","c","c","o","u","n","t","s">> >>,
     << <<"0","3">>,
        <<"M","a","s","t","e","r"," ","D","a","t","a"," ","M","a","n","a","g","e","m","e","n","t">>,
        <<"C","u","s","t","o","m","e","r","s",","," ","v","e","n","d","o","r","s",","," ","i","t","e","m","s",","," ","p","r","o","d","u","c","t","s",","," ","B","O","M",","," ","U","O","M",","," ","c","a","t","e","g","o","r","i","e","s">> >>,
     << <<"0","4">>,
        <<"P","u","r","c","h","a","s","e"," ","C","y","c","l","e">>,
        <<"R","e","q","u","i","s","i","t","i","o","n",","," ","p","u","r","c","h","a","s","e"," ","o","r","d","e","r",","," ","G","R","N",","," ","v","e","n","d","o","r"," ","b","i","l","l",","," ","v","e","n","d","o","r"," ","p","a","y","m","e","n","t">> >>,
     << <<"0","5">>,
        <<"S","a","l","e","s"," ","C","y","c","l","e">>,
        <<"Q","u","o","t","a","t","i","o","n",","," ","s","a","l","e","s"," ","o","r","d","e","r",","," ","d","e","l","i","v","e","r","y"," ","c","h","a","l","l","a","n",","," ","i","n","v","o","i","c","e",","," ","p","a","y","m","e","n","t"," ","r","e","c","e","i","p","t">> >>,
     << <<"0","6">>,
        <<"I","n","v","e","n","t","o","r","y"," ","M","a","n","a","g","e","m","e","n","t">>,
        <<"S","t","o","c","k"," ","l","e","d","g","e","r",","," ","t","r","a","n","s","f","e","r","s",","," ","a","d","j","u","s","t","m","e","n","t","s",","," ","b","a","t","c","h","e","s",","," ","v","a","l","u","a","t","i","o","n">> >>,
     << <<"0","7">>,
        <<"M","a","n","u","f","a","c","t","u","r","i","n","g"," ","&"," ","P","r","o","d","u","c","t","i","o","n">>,
        <<"W","o","r","k"," ","o","r","d","e","r","s",","," ","m","a","t","e","r","i","a","l"," ","i","s","s","u","e",","," ","p","r","o","d","u","c","t","i","o","n"," ","e","n","t","r","i","e","s",","," ","s","c","r","a","p">> >>,
     << <<"0","8">>,
        <<"A","c","c","o","u","n","t","i","n","g"," ","&"," ","F","i","n","a","n","c","e">>,
        <<"C","h","a","r","t"," ","o","f"," ","a","c","c","o","u","n","t","s",","," ","v","o","u","c","h","e","r","s",","," ","l","e","d","g","e","r",","," ","t","r","i","a","l"," ","b","a","l","a","n","c","e",","," ","P","&","L",","," ","b","a","l","a","n","c","e"," ","s","h","e","e","t">> >>,
     << <<"0","9">>,
        <<"G","S","T"," ","&"," ","T","a","x"," ","C","o","m","p","l","i","a","n","c","e">>,
        <<"C","G","S","T",","," ","S","G","S","T",","," ","I","G","S","T",","," ","r","e","v","e","r","s","e"," ","c","h","a","r","g","e",","," ","T","D","S","/","T","C","S",","," ","p","l","a","c","e"," ","o","f"," ","s","u","p","p","l","y">> >>,
     << <<"1","0">>,
        <<"B","a","n","k"," ","&"," ","C","a","s","h"," ","M","a","n","a","g","e","m","e","n","t">>,
        <<"B","a","n","k"," ","a","c","c","o","u","n","t","s",","," ","r","e","c","o","n","c","i","l","i","a","t","i","o","n",","," ","p","a","y","m","e","n","t"," ","m","o","d","e","s">> >>,
     << <<"1","1">>,
        <<"R","e","p","o","r","t","s"," ","&"," ","A","n","a","l","y","t","i","c","s">>,
        <<"I","n","v","e","n","t","o","r","y",","," ","s","a","l","e","s",","," ","p","u","r","c","h","a","s","e",","," ","a","g","i","n","g"," ","r","e","p","o","r","t","s">> >>,
     << <<"1","2">>,
        <<"S","t","o","c","k"," ","I","m","p","a","c","t"," ","R","e","f","e","r","e","n","c","e">>,
        <<"W","h","e","n"," ","s","t","o","c","k"," ","i","n","c","r","e","a","s","e","s",","," ","d","e","c","r","e","a","s","e","s",","," ","a","n","d"," ","g","e","t","s"," ","r","e","s","e","r","v","e","d">> >>,
     << <<"1","3">>,
        <<"D","o","c","u","m","e","n","t"," ","N","u","m","b","e","r","i","n","g"," ","&"," ","S","e","q","u","e","n","c","e","s">>,
        <<"A","u","t","o","-","n","u","m","b","e","r","i","n","g",","," ","p","r","e","f","i","x","e","s",","," ","f","i","n","a","n","c","i","a","l"," ","y","e","a","r"," ","r","e","s","e","t">> >>,
     << <<"1","4">>,
        <<"Q","u","i","c","k"," ","R","e","f","e","r","e","n","c","e"," ","C","h","e","a","t"," ","S","h","e","e","t">>,
        <<"S","t","a","t","u","s"," ","f","l","o","w","s",","," ","A","P","I"," ","e","n","d","p","o","i","n","t","s",","," ","c","o","m","m","o","n"," ","o","p","e","r","a","t","i","o","n","s">> >> >>

report_sections ==
  << [section_title |-> <<"I","n","v","e","n","t","o","r","y"," ","R","e","p","o","r","t","s">>, section_num |-> <<"1","1",".","1">>,
      reports |->
       << << <<"I","n","v","e","n","t","o","r","y"," ","S","u","m","m","a","r","y">>,
             <<"/","a","p","i","/","r","e","p","o","r","t","s","/","i","n","v","e","n","t","o","r","y","-","s","u","m","m","a","r","y">>,
             <<"C","u","r","r","e","n","t"," ","s","t","o","c","k"," ","l","e","v","e","l","s"," ","p","e","r"," ","i","t","e","m"," ","p","e","r"," ","w","a","r","e","h","o","u","s","e"," ","w","i","t","h"," ","v","a","l","u","a","t","i","o","n">> >>,
          << <<"S","t","o","c","k"," ","L","e","d","g","e","r">>,
             <<"/","a","p","i","/","i","n","v","e","n","t","o","r","y","/","s","t","o","c","k","-","l","e","d","g","e","r">>,
             <<"C","o","m","p","l","e","t","e"," ","t","r","a","n","s","a","c","t","i","o","n"," ","h","i","s","t","o","r","y"," ","w","i","t","h"," ","f","i","l","t","e","r","s"," ","b","y"," ","i","t","e","m",","," ","w","a","r","e","h","o","u","s","e",","," ","d","a","t","e"," ","r","a","n","g","e">> >>,
          << <<"S","t","o","c","k"," ","S","u","m","m","a","r","y">>,
             <<"/","a","p","i","/","i","n","v","e","n","t","o","r","y","/","s","t","o","c","k","-","s","u","m","m","a","r","y">>,
             <<"A","v","a","i","l","a","b","l","e",","," ","r","e","s","e","r","v","e","d",","," ","o","n","-","o","r","d","e","r"," ","q","u","a","n","t","i","t","i","e","s"," ","p","e","r"," ","i","t","e","m"," ","p","e","r"," ","w","a","r","e","h","o","u","s","e">> >>,
          << <<"S","t","o","c","k"," ","V","a","l","u","a","t","i","o","n">>,
             <<"/","a","p","i","/","i","n","v","e","n","t","o","r","y","/","v","a","l","u","a","t","i","o","n">>,
             <<"T","o","t","a","l"," ","i","n","v","e","n","t","o","r","y"," ","v","a","l","u","e"," ","u","s","i","n","g"," ","F","I","F","O"," ","o","r"," ","w","e","i","g","h","t","e","d"," ","a","v","e","r","a","g","e"," ","m","e","t","h","o","d">> >>,
          << <<"S","c","r","a","p"," ","A","n","a","l","y","s","i","s">>,
             <<"/","a","p","i","/","m","a","n","u","f","a","c","t","u","r","i","n","g","/","s","c","r","a","p","-","a","n","a","l","y","s","i","s">>,
             <<"S","c","r","a","p"," ","t","r","e","n","d","s"," ","b","y"," ","r","e","a","s","o","n",","," ","p","r","o","d","u","c","t",","," ","a","n","d"," ","t","i","m","e"," ","p","e","r","i","o","d">> >> >>],
     [section_title |-> <<"S","a","l","e","s"," ","R","e","p","o","r","t","s">>, section_num |-> <<"1","1",".","2">>,
      reports |->
       << << <<"S","a","l","e","s"," ","S","u","m","m","a","r","y">>,
             <<"/","a","p","i","/","r","e","p","o","r","t","s","/","s","a","l","e","s","-","s","u","m","m","a","r","y">>,
             <<"R","e","v","e","n","u","e"," ","a","n","a","l","y","s","i","s"," ","b","y"," ","c","u","s","t","o","m","e","r",","," ","p","r","o","d","u","c","t",","," ","p","e","r","i","o","d">> >>,
          << <<"A","g","i","n","g"," ","R","e","c","e","i","v","a","b","l","e","s">>,
             <<"/","a","p","i","/","r","e","p","o","r","t","s","/","a","g","i","n","g","-","r","e","c","e","i","v","a","b","l","e","s">>,
             <<"C","u","s","t","o","m","e","r"," ","o","u","t","s","t","a","n","d","i","n","g"," ","b","r","o","k","e","n"," ","b","y"," ","a","g","e"," ","b","u","c","k","e","t","s"," ","(","0","-","3","0",","," ","3","1","-","6","0",","," ","6","1","-","9","0",","," ","9","0","+"," ","d","a","y","s",")">> >>,
          << <<"O","u","t","s","t","a","n","d","i","n","g"," ","R","e","c","e","i","v","a","b","l","e","s">>,
             <<"/","a","p","i","/","f","i","n","a","n","c","e","/","o","u","t","s","t","a","n","d","i","n","g","-","r","e","c","e","i","v","a","b","l","e","s">>,
             <<"T","o","t","a","l"," ","a","m","o","u","n","t","s"," ","o","w","e","d"," ","b","y"," ","e","a","c","h"," ","c","u","s","t","o","m","e","r">> >>,
          << <<"C","u","s","t","o","m","e","r"," ","P","a","y","m","e","n","t"," ","H","i","s","t","o","r","y">>,
             <<"/","a","p","i","/","p","a","y","m","e","n","t","-","r","e","c","e","i","p","t","s","/","c","u","s","t","o","m","e","r","-","h","i","s","t","o","r","y","/",":","i","d">>,
             <<"A","l","l"," ","p","a","y","m","e","n","t","s"," ","r","e","c","e","i","v","e","d"," ","f","r","o","m"," ","a"," ","s","p","e","c","i","f","i","c"," ","c","u","s","t","o","m","e","r">> >>,
          << <<"C","u","s","t","o","m","e","r"," ","O","u","t","s","t","a","n","d","i","n","g">>,
             <<"/","a","p","i","/","s","a","l","e","s","-","i","n","v","o","i","c","e","s","/","o","u","t","s","t","a","n","d","i","n","g","/",":","c","u","s","t","o","m","e","r","I","d">>,
             <<"U","n","p","a","i","d"," ","i","n","v","o","i","c","e","s"," ","f","o","r"," ","a"," ","s","p","e","c","i","f","i","c"," ","c","u","s","t","o","m","e","r">> >> >>],
     [section_title |-> <<"P","u","r","c","h","a","s","e"," ","R","e","p","o","r","t","s">>, section_num |-> <<"1","1",".","3">>,
      reports |->
       << << <<"P","u","r","c","h","a","s","e"," ","S","u","m","m","a","r","y">>,
             <<"/","a","p","i","/","r","e","p","o","r","t","s","/","p","u","r","c","h","a","s","e","-","s","u","m","m","a","r","y">>,
             <<"S","p","e","n","d"," ","a","n","a","l","y","s","i","s"," ","b","y"," ","v","e","n","d","o","r",","," ","i","t","e","m",","," ","p","e","r","i","o","d">> >>,
          << <<"A","g","i","n","g"," ","P","a","y","a","b","l","e","s">>,
             <<"/","a","p","i","/","r","e","p","o","r","t","s","/","a","g","i","n","g","-","p","a","y","a","b","l","e","s">>,
             <<"V","e","n","d","o","r"," ","o","u","t","s","t","a","n","d","i","n","g"," ","b","r","o","k","e","n"," ","b","y"," ","a","g","e"," ","b","u","c","k","e","t","s">> >>,
          << <<"O","u","t","s","t","a","n","d","i","n","g"," ","P","a","y","a","b","l","e","s">>,
             <<"/","a","p","i","/","f","i","n","a","n","c","e","/","o","u","t","s","t","a","n","d","i","n","g","-","p","a","y","a","b","l","e","s">>,
             <<"T","o","t","a","l"," ","a","m","o","u","n","t","s"," ","o","w","e","d"," ","t","o"," ","e","a","c","h"," ","v","e","n","d","o","r">> >>,
          << <<"V","e","n","d","o","r"," ","O","u","t","s","t","a","n","d","i","n","g">>,
             <<"/","a","p","i","/","v","e","n","d","o","r","-","b","i","l","l","s","/","o","u","t","s","t","a","n","d","i","n","g","/",":","v","e","n","d","o","r","I","d">>,
             <<"U","n","p","a","i","d"," ","b","i","l","l","s"," ","f","o","r"," ","a"," ","s","p","e","c","i","f","i","c"," ","v","e","n","d","o","r">> >> >>],
     [section_title |-> <<"F","i","n","a","n","c","i","a","l"," ","R","e","p","o","r","t","s">>, section_num |-> <<"1","1",".","4">>,
      reports |->
       << << <<"T","r","i","a","l"," ","B","a","l","a","n","c","e">>,
             <<"/","a","p","i","/","f","i","n","a","n","c","e","/","t","r","i","a","l","-","b","a","l","a","n","c","e">>,
             <<"A","l","l"," ","a","c","c","o","u","n","t"," ","b","a","l","a","n","c","e","s"," ","w","i","t","h"," ","d","e","b","i","t","/","c","r","e","d","i","t"," ","t","o","t","a","l","s">> >>,
          << <<"P","r","o","f","i","t"," ","&"," ","L","o","s","s">>,
             <<"/","a","p","i","/","f","i","n","a","n","c","e","/","p","r","o","f","i","t","-","a","n","d","-","l","o","s","s">>,
             <<"R","e","v","e","n","u","e"," ","m","i","n","u","s"," ","e","x","p","e","n","s","e","s"," ","f","o","r"," ","a"," ","p","e","r","i","o","d">> >>,
          << <<"B","a","l","a","n","c","e"," ","S","h","e","e","t">>,
             <<"/","a","p","i","/","f","i","n","a","n","c","e","/","b","a","l","a","n","c","e","-","s","h","e","e","t">>,
             <<"A","s","s","e","t","s",","," ","l","i","a","b","i","l","i","t","i","e","s",","," ","a","n","d"," ","e","q","u","i","t","y"," ","a","t"," ","a"," ","p","o","i","n","t"," ","i","n"," ","t","i","m","e">> >>,
          << <<"A","c","c","o","u","n","t"," ","L","e","d","g","e","r">>,
             <<"/","a","p","i","/","f","i","n","a","n","c","e","/","a","c","c","o","u","n","t","-","l","e","d","g","e","r","/",":","a","c","c","o","u","n","t","I","d">>,
             <<"T","r","a","n","s","a","c","t","i","o","n"," ","d","e","t","a","i","l","s"," ","f","o","r"," ","a"," ","s","p","e","c","i","f","i","c"," ","a","c","c","o","u","n","t">> >>,
          << <<"P","a","r","t","y"," ","L","e","d","g","e","r">>,
             <<"/","a","p","i","/","f","i","n","a","n","c","e","/","p","a","r","t","y","-","l","e","d","g","e","r","/",":","p","a","r","t","y","T","y","p","e","/",":","p","a","r","t","y","I","d">>,
             <<"C","u","s","t","o","m","e","r"," ","o","r"," ","v","e","n","d","o","r"," ","t","r","a","n","s","a","c","t","i","o","n"," ","h","i","s","t","o","r","y"," ","w","i","t","h"," ","r","u","n","n","i","n","g"," ","b","a","l","a","n","c","e">> >>,
          << <<"B","a","n","k"," ","R","e","c","o","n","c","i","l","i","a","t","i","o","n">>,
             <<"/","a","p","i","/","f","i","n","a","n","c","e","/","b","a","n","k","-","r","e","c","o","n","c","i","l","i","a","t","i","o","n","/",":","b","a","n","k","A","c","c","o","u","n","t","I","d","/","s","u","m","m","a","r","y">>,
             <<"R","e","c","o","n","c","i","l","i","a","t","i","o","n"," ","s","t","a","t","u","s"," ","a","n","d"," ","o","u","t","s","t","a","n","d","i","n","g"," ","i","t","e","m","s">> >> >>] >>

\* for i in range(0, limit, 20): self.c.line(...), the grid of the cover and
\* of the end page; a vertical line starts at (i, 0), a horizontal at (0, i).
GridLines(cv, limit, vertical) ==
  EmitAll(cv, [k \in 1..((limit + 19) \div 20) |->
                 [op |-> "line", s |-> <<>>,
                  x |-> IF vertical THEN (k - 1) * 20 ELSE 0,
                  y |-> IF vertical THEN 0 ELSE (k - 1) * 20]])

\* The grid pattern: saveState, the two loops, restoreState.
Grid(d) ==
  LET c1 == GridLines(saveState(d.c), W, TRUE)
      c2 == GridLines(c1, H, FALSE)
  IN [d EXCEPT !.c = restoreState(c2)]

\* H * 0.58 and the like, in whole points.
Pct(n, p) == (n * p) \div 100

PerMille(n, p) == (n * p) \div 1000

\* The description block of the cover: its first sentence.
CoverDescription ==
  <<"A"," ","c","o","m","p","r","e","h","e","n","s","i","v","e"," ","r","e","f","e","r","e","n","c","e"," ","f","o","r"," ","u","n","d","e","r","s","t","a","n","d","i","n","g"," ","e","v","e","r","y"," ","m","o","d","u","l","e",","," ","w","o","r","k","f","l","o","w",","," ","a","n","d"," ","p","r","o","c","e","s","s"," ","i","n"," ","t","h","e"," ","M","a","n","u","f","a","c","t","u","r","i","n","g"," ","E","R","P"," ","s","y","s","t","e","m",".">>

\* The cover: counted as a page, drawn, and emitted by its own showPage.
page_cover(d) ==
  LET d0  == [d EXCEPT !.page_num = @ + 1]
      d1  == Grid(draw_rect(d0, 0, 0))
      d2  == draw_circle(d1, Pct(W, 80), Pct(H, 75))
      d3  == draw_circle(d2, Pct(W, 15), Pct(H, 25))
      d4  == draw_rect(d3, MARGIN + 5, Pct(H, 62))
      d5  == draw_text(d4, <<"E","R","P"," ","S","Y","S","T","E","M">>, MARGIN + 5, Pct(H, 58), "Jura-Light", "left", None)
      d6  == draw_text(d5, <<"C","o","m","p","l","e","t","e">>, MARGIN + 5, Pct(H, 50), "InstrumentSans-Bold", "left", None)
      d7  == draw_text(d6, <<"T","r","a","i","n","i","n","g"," ","G","u","i","d","e">>, MARGIN + 5, Pct(H, 44), "InstrumentSans-Bold", "left", None)
      d8  == draw_text(d7, <<"M","a","n","u","f","a","c","t","u","r","i","n","g"," ","E","R","P"," "," ","|"," "," ","I","n","v","e","n","t","o","r","y"," "," ","|"," "," ","S","a","l","e","s"," "," ","|"," "," ","P","u","r","c","h","a","s","e"," "," ","|"," "," ","F","i","n","a","n","c","e">>, MARGIN + 5, Pct(H, 38), "CrimsonPro-Italic", "left", None)
      d9  == draw_line(d8, MARGIN + 5, Pct(H, 36))
      d10 == draw_wrapped_text(d9, CoverDescription, MARGIN + 5, Pct(H, 33),
                               Pct(W, 55), "CrimsonPro", 15).d
      d11 == draw_line(d10, MARGIN + 5, Pct(H, 8))
      d12 == draw_text(d11, <<"D","O","C","U","M","E","N","T"," ","R","E","F">>, MARGIN + 5, Pct(H, 6), "GeistMono", "left", None)
      d13 == draw_text(d12, <<"E","R","P","-","T","R","N","-","0","0","1">>, MARGIN + 5, PerMille(H, 45), "GeistMono", "left", None)
      d14 == draw_text(d13, <<"V","E","R","S","I","O","N">>, Pct(W, 35), Pct(H, 6), "GeistMono", "left", None)
      d15 == draw_text(d14, <<"1",".","0">>, Pct(W, 35), PerMille(H, 45), "GeistMono", "left", None)
      d16 == draw_text(d15, <<"C","L","A","S","S","I","F","I","C","A","T","I","O","N">>, Pct(W, 55), Pct(H, 6), "GeistMono", "left", None)
      d17 == draw_text(d16, <<"I","N","T","E","R","N","A","L"," ","T","R","A","I","N","I","N","G">>, Pct(W, 55), PerMille(H, 45), "GeistMono", "left", None)
  IN [d17 EXCEPT !.c = showPage(d17.c)]

\* The dots between a title and its page hint: while dot_x < dots_end, one
\* draw_text('.', dot_x, self.y, 'CrimsonPro', ...) and dot_x += 4.  Every
\* draw_text restores the graphics state it saved.
Dots(d, title_end, dots_end) ==
  LET n  == (dots_end - title_end + 3) \div 4
      c1 == EmitAll(setFont(saveState(d.c), "CrimsonPro"),
                    [k \in 1..n |-> [op |-> "drawString", s |-> <<".">>,
                                     x |-> title_end + 4 * (k - 1), y |-> d.y]])
  IN [d EXCEPT !.c = restoreState(c1)]

\* One iteration of the loop of page_toc.
TocItem(d, num, title, desc) ==
  LET d1 == draw_text(d, num, MARGIN + 5, d.y, "GeistMono", "left", None)
      d2 == draw_text(d1, title, MARGIN + 35, d1.y, "InstrumentSans-Bold", "left", None)
      title_end == MARGIN + 35 + stringWidth(title, "InstrumentSans-Bold") + 8
      dots_end == W - MARGIN - 25
      d3 == IF title_end < dots_end THEN Dots(d2, title_end, dots_end) ELSE d2
      d4 == draw_text(d3, num, W - MARGIN - 5, d3.y, "GeistMono", "right", None)
      d5 == [d4 EXCEPT !.y = @ - 14]
      d6 == draw_text(d5, desc, MARGIN + 35, d5.y, "CrimsonPro-Italic", "left", None)
  IN [d6 EXCEPT !.y = @ - 20]

\* The first two statements of page_toc.
TocStart(d) ==
  draw_section_header(new_page(d, <<"T","O","C">>), <<"0","0">>,
                      <<"T","a","b","l","e"," ","o","f"," ","C","o","n","t","e","n","t","s">>, <<>>)

\* The first two statements of a section function.
SectionStart(d, s) ==
  draw_section_header(new_page(d, s.code), s.number, s.title, s.subtitle)

\* Variant of Guard: the page is kept even when check_space returns False.
GuardKeepsPage(d, needed, code) == d

\* if not self.check_space(needed): self.new_page(code)
Guard(d, needed, code) ==
  IF ~check_space(d, needed).ret THEN new_page(d, code) ELSE d

\* page_reports, the head of the outer loop: the guard and the subsection.
ReportsHead(d, code, sec) ==
  draw_subsection(Guard(d, 50 + Len(sec.reports) * 45, code),
                  sec.section_title, sec.section_num)

\* page_reports, one iteration of the inner loop.
ReportsRow(d, code, report) ==
  LET d1 == Guard(d, 40, code)
      d2 == draw_text(d1, report[1], MARGIN + 10, d1.y, "InstrumentSans-Bold", "left", None)
      d3 == draw_text(d2, report[2], MARGIN + 10, d2.y - 13, "GeistMono", "left", None)
      d4 == [d3 EXCEPT !.y = @ - 26]
      r  == draw_wrapped_text(d4, report[3], MARGIN + 10, d4.y, CONTENT_W - 15,
                              "CrimsonPro", 12)
  IN [r.d EXCEPT !.y = r.ret - 10]

\* The end page: the page in progress is emitted, the end page is counted
\* and drawn, and left in progress.
page_end(d) ==
  LET d0 == [d EXCEPT !.c = showPage(d.c), !.page_num = @ + 1]
      d1 == Grid(draw_rect(d0, 0, 0))
      d2 == draw_text(d1, <<"E","n","d"," ","o","f"," ","D","o","c","u","m","e","n","t">>, W \div 2, Pct(H, 55), "InstrumentSans-Bold", "center", None)
      d3 == draw_rect(d2, W \div 2 - 40, Pct(H, 52))
      d4 == draw_text(d3, <<"E","R","P"," ","S","y","s","t","e","m"," ","T","r","a","i","n","i","n","g"," ","G","u","i","d","e"," ","v","1",".","0">>, W \div 2, Pct(H, 48), "CrimsonPro-Italic", "center", None)
      d5 == draw_text(d4, <<"F","o","r"," ","i","n","t","e","r","n","a","l"," ","t","r","a","i","n","i","n","g"," ","p","u","r","p","o","s","e","s">>, W \div 2, Pct(H, 44), "CrimsonPro", "center", None)
  IN draw_text(d5, <<"E","R","P","-","T","R","N","-","0","0","1">>, W \div 2, Pct(H, 10), "GeistMono", "center", None)

\* self.c.save()
save(d) == [d EXCEPT !.c = canvas_save(d.c)]


\* -------------------------------------------------------- state machine
VARIABLES
  doc,        \* the ERPTrainingDoc object
  text, x, y, max_width, font, leading,   \* arguments of the calls of draw_wrapped_text
  last,       \* the last operation: its name, the document before it, what it
              \* returned and the drawing operations it added to the page
  first,      \* the first call of draw_wrapped_text, recorded like `last`
  steps,      \* number of operations so far
  pc          \* where generate() stands: fn, the index in GenerateScript of
              \* the call to make or in progress; i and j, the position
              \* inside a section function

vars == <<doc, text, x, y, max_width, font, leading, last, first, steps, pc>>

args == <<text, x, y, max_width, font, leading>>

Alphabet == {"a", "M", " "}

TheQuickBrownFox ==
  <<"t","h","e"," ","q","u","i","c","k"," ","b","r","o","w","n"," ","f","o","x">>

ExtraTexts ==
  { TheQuickBrownFox,
    <<"\t", "\n", " ">>,
    <<"a", "\t", "M", "\n", "a">>,
    <<"a", " ", "M", " ", "a">>,
    <<"M", "M", " ", "a", " ", "a", " ", "M", "M">>,
    <<"a", " ", "a", " ", "a", " ", "a", " ", "a">>,
    <<" ", "a", "a", " ", " ", "M", " ", "a", " ">>,
    <<"\t", "M", "M", " ", "\n", "a", " ", "a", " ">> }

BoundedTexts == UNION {[1..k -> Alphabet] : k \in 0..MaxTextLen}

MaxWidths == ((0 - 1)..MaxWidth) \cup {12}

Leadings == {0 - 3, 0, 14}

Origins == {<<50, 100>>, <<0, 0 - 7>>}

Fonts == {"CrimsonPro", "GeistMono"}

\* generate() not yet started.
Start == [fn |-> 1, i |-> 0, j |-> 0]

NoCall == [op |-> "none", pre |-> NewDoc, ret |-> None, draws |-> <<>>, raised |-> FALSE]

InitWith(texts) ==
  /\ doc = NewDoc
  /\ text \in texts
  /\ \E o \in Origins : x = o[1] /\ y = o[2]
  /\ max_width \in MaxWidths
  /\ font \in Fonts
  /\ leading \in Leadings
  /\ last = NoCall
  /\ first = NoCall
  /\ steps = 0
  /\ pc = Start

\* The listed texts: sequences of operations are explored on these.
Init == InitWith(ExtraTexts)

\* Every text of at most MaxTextLen characters, and the listed ones.
InitWrap == InitWith(BoundedTexts \cup ExtraTexts)

\* The drawing operations a call added to the page in progress.
Emitted(pre, post) == SubSeq(post.c.page, Len(pre.c.page) + 1, Len(post.c.page))

\* A direct call self.draw_wrapped_text(text, x, y, max_width, font, size,
\* color, leading) whose arguments do not come from the cursor.
DrawWrappedText(b) ==
  /\ steps < b
  /\ LET r   == draw_wrapped_text(doc, text, x, y, max_width, font, leading)
         rec == [op |-> "draw_wrapped_text", pre |-> doc, ret |-> r.ret,
                 draws |-> Emitted(doc, r.d), raised |-> r.raised]
     IN /\ doc' = r.d
        /\ last' = rec
        /\ first' = IF first.op = "none" THEN rec ELSE first
  /\ steps' = steps + 1
  /\ UNCHANGED <<args, pc>>

DrawParagraph(b) ==
  /\ steps < b
  /\ \E indent \in {0, 15} :
       LET d == draw_paragraph(doc, text, indent) IN
       /\ doc' = d
       /\ last' = [op |-> "draw_paragraph", pre |-> doc, ret |-> None,
                   draws |-> Emitted(doc, d), raised |-> FALSE]
  /\ steps' = steps + 1
  /\ UNCHANGED <<args, first, pc>>

NewPage(b) ==
  /\ steps < b
  /\ \E section_code \in {<<>>, <<"T", "O", "C">>} :
       LET d == new_page(doc, section_code) IN
       /\ doc' = d
       /\ last' = [op |-> "new_page", pre |-> doc, ret |-> None,
                   draws |-> d.c.page, raised |-> FALSE]
  /\ steps' = steps + 1
  /\ UNCHANGED <<args, first, pc>>

\* self.draw_text(text, x, y, font, size, color, max_width=max_width), as
\* draw_table_row calls it with max_width = w - 12.
DrawText(b) ==
  /\ steps < b
  /\ LET d == draw_text(doc, text, x, y, font, "left", Some(max_width)) IN
     /\ doc' = d
     /\ last' = [op |-> "draw_text", pre |-> doc, ret |-> None,
                 draws |-> Emitted(doc, d), raised |-> FALSE]
  /\ steps' = steps + 1
  /\ UNCHANGED <<args, first, pc>>

\* Amounts of space asked for: 16, 70 and 200 are passed by the page
\* functions; 732 is H - 2*MARGIN - 20, all that a fresh page offers.
Needed == {16, 70, 200, H - 2 * MARGIN - 20, H - 2 * MARGIN - 19}

CheckSpace(b) ==
  /\ steps < b
  /\ \E needed \in Needed :
       LET r == check_space(doc, needed) IN
       /\ doc' = r.d
       /\ last' = [op |-> "check_space", pre |-> doc, ret |-> r.ret,
                   draws |-> Emitted(doc, r.d), raised |-> FALSE, needed |-> needed]
  /\ steps' = steps + 1
  /\ UNCHANGED <<args, first, pc>>

Next ==
  \/ DrawWrappedText(MaxSeqSteps)
  \/ DrawParagraph(MaxSeqSteps)
  \/ NewPage(MaxSeqSteps)

\* Sequences of operations on one document, over the listed texts.
Spec == Init /\ [][Next]_vars

Call == DrawWrappedText(MaxSteps)

\* Calls of draw_wrapped_text on a fresh document, over all bounded texts.
SpecWrap == InitWrap /\ [][Call]_vars


\* =============================================================== claims
\* The state right after a call of draw_wrapped_text with the arguments
\* text, x, y, max_width, font, leading.
AfterCall == last.op = "draw_wrapped_text"

\* The lines the call emitted, in the order of emission.
Lines == [k \in 1..Len(last.draws) |-> last.draws[k].s]

Words == Split(text)

RECURSIVE WordsOfLines(_)
WordsOfLines(ls) ==
  IF ls = <<>> THEN <<>> ELSE Split(Head(ls)) \o WordsOfLines(Tail(ls))

\* Number of words on the lines before line i.
RECURSIVE WordsBefore(_, _)
WordsBefore(ls, i) ==
  IF i <= 1 THEN 0 ELSE WordsBefore(ls, i - 1) + Len(Split(ls[i - 1]))

Overlong(w) == stringWidth(w, font) > max_width

\* C1 (word conservation): the words of the emitted lines, read line by line
\* and left to right, are exactly text.split().
C1_WordConservation ==
  AfterCall => WordsOfLines(Lines) = Words

C1_Witness ==
  /\ AfterCall
  /\ Len(Words) >= 3
  /\ Len(Lines) >= 2
  /\ \E k \in 1..Len(Lines) : Len(Split(Lines[k])) >= 2

\* C2 (width bound): every emitted line of two or more words measures at most
\* max_width; only a one-word line may be wider.
C2_WidthBound ==
  AfterCall =>
    \A k \in 1..Len(Lines) :
      Len(Split(Lines[k])) >= 2 => stringWidth(Lines[k], font) <= max_width

C2_Witness ==
  /\ AfterCall
  /\ \E k \in 1..Len(Lines) : Len(Split(Lines[k])) >= 2
  /\ \E k \in 1..Len(Lines) :
       Len(Split(Lines[k])) = 1 /\ stringWidth(Lines[k], font) > max_width

\* C3 (single overlong word): every word wider than max_width is emitted as a
\* line of its own that is exactly that word, wherever it stands in the text.
C3_OverlongAlone ==
  AfterCall =>
    \A k \in 1..Len(Words) :
      Overlong(Words[k]) =>
        \E i \in 1..Len(Lines) :
          /\ WordsBefore(Lines, i) = k - 1
          /\ Lines[i] = Words[k]

C3_Witness ==
  /\ AfterCall
  /\ Len(Words) >= 3
  /\ \E k \in 2..(Len(Words) - 1) :
       /\ Overlong(Words[k])
       /\ ~Overlong(Words[k - 1])
       /\ ~Overlong(Words[k + 1])

\* C4 (cursor result): the call returns start y minus leading times the
\* number of emitted lines.
C4_CursorResult ==
  AfterCall => last.ret = y - leading * Len(last.draws)

C4_Witness ==
  /\ AfterCall
  /\ Len(last.draws) >= 2
  /\ leading < 0

\* C5 (line placement): the k-th emitted line is drawn with drawString at
\* x and at y - (k-1) * leading; for a positive leading the y of successive
\* lines strictly decreases by exactly leading.
C5_LinePlacement ==
  AfterCall =>
    /\ \A k \in 1..Len(last.draws) :
         /\ last.draws[k].op = "drawString"
         /\ last.draws[k].x = x
         /\ last.draws[k].y = y - (k - 1) * leading
    /\ leading > 0 =>
         \A k \in 1..(Len(last.draws) - 1) :
           /\ last.draws[k + 1].y < last.draws[k].y
           /\ last.draws[k].y - last.draws[k + 1].y = leading

C5_Witness ==
  /\ AfterCall
  /\ Len(last.draws) >= 3
  /\ leading > 0

WhitespaceOnly(s) == \A i \in 1..Len(s) : IsSpace(s[i])

\* C6 (empty or whitespace-only text): no line is emitted and the call
\* returns its start y.
C6_EmptyText ==
  (AfterCall /\ WhitespaceOnly(text)) =>
    /\ last.draws = <<>>
    /\ last.pre.c.page = doc.c.page
    /\ last.ret = y

C6_Witness ==
  /\ AfterCall
  /\ WhitespaceOnly(text)
  /\ Len(text) >= 2

\* C7 (greedy maximality): a line is broken only when the next word does not
\* fit: each emitted line joined by a space with the first word of the
\* following line measures more than max_width.
C7_Greedy ==
  AfterCall =>
    \A k \in 1..(Len(Lines) - 1) :
      stringWidth(Lines[k] \o <<" ">> \o Head(Split(Lines[k + 1])), font) > max_width

C7_Witness ==
  /\ AfterCall
  /\ Len(Lines) >= 2
  /\ Len(Split(Lines[1])) >= 2
  /\ stringWidth(Lines[1], font) = max_width

Str_the_quick == <<"t","h","e"," ","q","u","i","c","k">>

Str_brown_fox == <<"b","r","o","w","n"," ","f","o","x">>

\* Exactly two words fit on a line: every two neighbouring words joined by a
\* space fit, no three do.
TwoWordsPerLine ==
  /\ \A k \in 1..(Len(Words) - 1) :
       stringWidth(Words[k] \o <<" ">> \o Words[k + 1], font) <= max_width
  /\ \A k \in 1..(Len(Words) - 2) :
       stringWidth(Words[k] \o <<" ">> \o Words[k + 1] \o <<" ">> \o Words[k + 2], font)
         > max_width

\* C8 (worked example): 'the quick brown fox' with two words fitting per
\* line, leading 14 and start y 100 gives the lines 'the quick', 'brown fox'
\* and the result 72.
C8_WorkedExample ==
  (/\ AfterCall
   /\ text = TheQuickBrownFox
   /\ TwoWordsPerLine
   /\ leading = 14
   /\ y = 100)
  => /\ Lines = <<Str_the_quick, Str_brown_fox>>
     /\ last.ret = 72

C8_Witness ==
  /\ AfterCall
  /\ text = TheQuickBrownFox
  /\ TwoWordsPerLine
  /\ leading = 14
  /\ y = 100

\* C9 (determinism): every call with the same arguments emits the same lines
\* at the same positions and returns the same value as the first such call,
\* whatever happened to the document in between.
C9_Determinism ==
  AfterCall => (last.draws = first.draws /\ last.ret = first.ret)

C9_Witness ==
  /\ AfterCall
  /\ Len(last.draws) >= 2
  /\ first.op = "draw_wrapped_text"
  /\ last.pre.y # first.pre.y
  /\ last.pre.c.page # first.pre.c.page

\* C10 (statelessness): the call leaves self.y and self.page_num as they were
\* and leaves the graphics-state stack of the canvas at the depth it found.
C10_Stateless ==
  AfterCall =>
    /\ doc.y = last.pre.y
    /\ doc.page_num = last.pre.page_num
    /\ Len(doc.c.stack) = Len(last.pre.c.stack)

C10_Witness ==
  /\ AfterCall
  /\ last.draws # <<>>
  /\ last.pre.page_num > 0
  /\ last.pre.y # H - MARGIN


NonPositiveConfig == max_width <= 0 \/ leading <= 0

\* C11 (totality): a call of draw_wrapped_text completes without an
\* exception and returns a number, for every text, max_width and leading
\* (non-positive ones included), and it emits no more lines than the text has
\* words.
C11_Totality ==
  AfterCall =>
    /\ ~last.raised
    /\ last.ret \in Int
    /\ Len(last.draws) <= Len(Words)

C11_Witness ==
  /\ AfterCall
  /\ max_width < 0
  /\ leading <= 0
  /\ Len(Words) >= 2
  /\ Overlong(Words[1])
  /\ Len(last.draws) = Len(Words)

\* C12 as stated (configuration error): a call with a non-positive max_width
\* or leading is rejected with an error and draws nothing.
C12_Original ==
  (AfterCall /\ NonPositiveConfig) => (last.raised /\ last.draws = <<>>)

\* C12 as amended: a call with a non-positive max_width or leading is not
\* rejected; it completes without an exception, emits every word of the text
\* and returns y - leading * (number of lines).
C12_NotRejected ==
  (AfterCall /\ NonPositiveConfig) =>
    /\ ~last.raised
    /\ Len(WordsOfLines(Lines)) = Len(Words)
    /\ last.ret = y - leading * Len(Lines)

C12_Witness ==
  /\ AfterCall
  /\ max_width <= 0
  /\ leading = 0
  /\ Len(last.draws) >= 2

\* C13 (degenerate width): with max_width <= 0 and words of positive width,
\* the emitted lines are exactly the words, one per line.
C13_OneWordPerLine ==
  (/\ AfterCall
   /\ max_width <= 0
   /\ \A k \in 1..Len(Words) : stringWidth(Words[k], font) > 0)
  => Lines = Words

C13_Witness ==
  /\ AfterCall
  /\ max_width <= 0
  /\ Len(Words) >= 3
  /\ \A k \in 1..Len(Words) : stringWidth(Words[k], font) > 0

RECURSIVE JoinSpace(_)
JoinSpace(ws) ==
  IF ws = <<>> THEN <<>>
  ELSE IF Len(ws) = 1 THEN ws[1]
  ELSE ws[1] \o <<" ">> \o JoinSpace(Tail(ws))

\* C14 (whitespace normalisation, no empty lines): every emitted line is
\* non-empty, neither starts nor ends with whitespace and is its words joined
\* by single spaces.
C14_Normalised ==
  AfterCall =>
    \A k \in 1..Len(Lines) :
      /\ Lines[k] # <<>>
      /\ ~IsSpace(Lines[k][1])
      /\ ~IsSpace(Lines[k][Len(Lines[k])])
      /\ Lines[k] = JoinSpace(Split(Lines[k]))

C14_Witness ==
  /\ AfterCall
  /\ Len(text) >= 2
  /\ IsSpace(text[1])
  /\ \E i \in 1..(Len(text) - 1) : IsSpace(text[i]) /\ IsSpace(text[i + 1])
  /\ Len(Words) >= 3
  /\ Overlong(Words[1])
  /\ \E k \in 1..Len(Lines) : Len(Split(Lines[k])) >= 2

BottomLimit == MARGIN + 20

\* C16 as stated (pagination): a call that starts at or above the bottom
\* limit places no line below it.
C16_Original ==
  (AfterCall /\ y >= BottomLimit) =>
    \A k \in 1..Len(last.draws) : last.draws[k].y >= BottomLimit

\* C16 as amended: draw_wrapped_text does not paginate: it issues no
\* showPage, all its lines are added to the page in progress, and a line
\* whose position y - (k-1) * leading is below the bottom limit is drawn
\* there.
C16_NoPagination ==
  AfterCall =>
    /\ doc.c.shown = last.pre.c.shown
    /\ doc.c.page = last.pre.c.page \o last.draws
    /\ Len(last.draws) = Len(WrapLines(text, max_width, font))
    /\ \A k \in 1..Len(last.draws) :
         (y - (k - 1) * leading < BottomLimit) => last.draws[k].y < BottomLimit

C16_Witness ==
  /\ AfterCall
  /\ y >= BottomLimit
  /\ \E k \in 1..Len(last.draws) : last.draws[k].y < BottomLimit


\* ------------------------------------------- further specifications
CallText == DrawText(MaxSteps)

\* Calls of draw_text on a fresh document, over all bounded texts.
SpecText == InitWrap /\ [][CallText]_vars

\* One document, one text: the page operations.
InitPage ==
  /\ doc = NewDoc
  /\ text = TheQuickBrownFox
  /\ x = 50
  /\ y = 100
  /\ max_width = 12
  /\ font = "CrimsonPro"
  /\ leading = 14
  /\ last = NoCall
  /\ first = NoCall
  /\ steps = 0
  /\ pc = Start

NextPage ==
  \/ CheckSpace(MaxSeqSteps)
  \/ NewPage(MaxSeqSteps)
  \/ DrawParagraph(MaxSeqSteps)

SpecPage == InitPage /\ [][NextPage]_vars

AfterCheckSpace == last.op = "check_space"

NoSpace == last.pre.y - last.needed < MARGIN + 20

\* C17 as stated: when self.y - needed < MARGIN + 20 at the call,
\* check_space leaves the document on a fresh page: page_num incremented and
\* self.y = H - MARGIN.
C17_StartsNewPage ==
  (AfterCheckSpace /\ NoSpace) =>
    /\ doc.page_num = last.pre.page_num + 1
    /\ doc.y = H - MARGIN

\* C18 (result of check_space): it returns False exactly when
\* self.y - needed < MARGIN + 20, and True otherwise, in particular when
\* self.y - needed = MARGIN + 20.
C18_CheckSpaceResult ==
  AfterCheckSpace =>
    /\ (last.ret = FALSE) <=> NoSpace
    /\ (last.ret = TRUE) <=> ~NoSpace
    /\ (last.pre.y - last.needed = MARGIN + 20) => last.ret = TRUE

C18_Witness ==
  /\ AfterCheckSpace
  /\ last.pre.y - last.needed = MARGIN + 20
  /\ last.pre.page_num > 0

AfterDrawText == last.op = "draw_text"

\* The string draw_text drew.
Drawn == last.draws[1].s

\* C20 as stated (truncation bound): when draw_text is called with a number
\* as max_width, the string drawn measures at most max_width or has at most
\* 3 characters, and a text that fits is drawn unchanged.
C20_TruncationBound ==
  AfterDrawText =>
    /\ Len(last.draws) = 1
    /\ stringWidth(Drawn, font) <= max_width \/ Len(Drawn) <= 3
    /\ stringWidth(text, font) <= max_width => Drawn = text

\* ------------------------------------------------------------ generate
\* The call generate() is about to make, or is making.
Current == IF pc.fn <= Len(GenerateScript) THEN GenerateScript[pc.fn] ELSE "done"

SectionFns == {Sections[k].fn : k \in 1..Len(Sections)}

CurrentSection == Sections[CHOOSE k \in 1..Len(Sections) : Sections[k].fn = Current]

\* Amounts of space the guards of the section functions ask for.
GuardNeeded == {16, 70, 200}

\* The operations a step added to the page now in progress.
Added(pre, post) ==
  IF post.c.shown = pre.c.shown THEN Emitted(pre, post) ELSE post.c.page

Record(op, d) ==
  [op |-> op, pre |-> doc, ret |-> None, draws |-> Added(doc, d), raised |-> FALSE]

Return == [fn |-> pc.fn + 1, i |-> 0, j |-> 0]

PageCover ==
  /\ Current = "page_cover"
  /\ LET d == page_cover(doc) IN doc' = d /\ last' = Record("page_cover", d)
  /\ pc' = Return
  /\ UNCHANGED <<args, first, steps>>

\* page_toc starts: new_page and draw_section_header.
TocOpen ==
  /\ Current = "page_toc"
  /\ pc.i = 0
  /\ LET d == TocStart(doc) IN doc' = d /\ last' = Record("page_toc", d)
  /\ pc' = [pc EXCEPT !.i = 1, !.j = 1]
  /\ UNCHANGED <<args, first, steps>>

\* page_toc: an iteration of its loop.
TocRow ==
  /\ Current = "page_toc"
  /\ pc.i = 1
  /\ pc.j \in 1..Len(toc_items)
  /\ LET d == TocItem(doc, toc_items[pc.j][1], toc_items[pc.j][2], toc_items[pc.j][3]) IN
       doc' = d /\ last' = Record("toc_item", d)
  /\ pc' = [pc EXCEPT !.j = @ + 1]
  /\ UNCHANGED <<args, first, steps>>

\* page_toc returns when its loop is over.
TocReturn ==
  /\ Current = "page_toc"
  /\ pc.i = 1
  /\ pc.j = Len(toc_items) + 1
  /\ pc' = Return
  /\ UNCHANGED <<doc, last, args, first, steps>>

\* A section function starts: new_page and draw_section_header.
SectionOpen ==
  /\ Current \in SectionFns
  /\ pc.i = 0
  /\ LET d == SectionStart(doc, CurrentSection) IN
       doc' = d /\ last' = Record("section", d)
  /\ pc' = [pc EXCEPT !.i = 1]
  /\ UNCHANGED <<args, first, steps>>

\* Inside a section function other than page_reports: a guard
\* `if not self.check_space(needed): self.new_page(code)`.
SectionGuard ==
  /\ Current \in SectionFns \ {"page_reports"}
  /\ pc.i = 1
  /\ pc.j < MaxBlocks
  /\ \E needed \in GuardNeeded :
       LET d == Guard(doc, needed, CurrentSection.code) IN
       /\ doc' = d
       /\ last' = [op |-> "guard", pre |-> doc, ret |-> None, draws |-> Added(doc, d),
                   raised |-> FALSE, needed |-> needed]
  /\ pc' = [pc EXCEPT !.j = @ + 1]
  /\ UNCHANGED <<args, first, steps>>

\* Inside a section function other than page_reports: a paragraph.
SectionParagraph ==
  /\ Current \in SectionFns \ {"page_reports"}
  /\ pc.i = 1
  /\ pc.j < MaxBlocks
  /\ LET d == draw_paragraph(doc, text, 0) IN
       doc' = d /\ last' = Record("draw_paragraph", d)
  /\ pc' = [pc EXCEPT !.j = @ + 1]
  /\ UNCHANGED <<args, first, steps>>

\* page_reports: the head of an iteration of the outer loop.
ReportsSection ==
  /\ Current = "page_reports"
  /\ pc.i \in 1..Len(report_sections)
  /\ pc.j = 0
  /\ LET d == ReportsHead(doc, CurrentSection.code, report_sections[pc.i]) IN
       doc' = d /\ last' = Record("reports_section", d)
  /\ pc' = [pc EXCEPT !.j = 1]
  /\ UNCHANGED <<args, first, steps>>

\* page_reports: an iteration of the inner loop.
ReportsItem ==
  /\ Current = "page_reports"
  /\ pc.i \in 1..Len(report_sections)
  /\ pc.j \in 1..Len(report_sections[pc.i].reports)
  /\ LET d == ReportsRow(doc, CurrentSection.code,
                         report_sections[pc.i].reports[pc.j]) IN
       doc' = d /\ last' = Record("report", d)
  /\ pc' = IF pc.j < Len(report_sections[pc.i].reports)
             THEN [pc EXCEPT !.j = @ + 1]
             ELSE [pc EXCEPT !.i = @ + 1, !.j = 0]
  /\ UNCHANGED <<args, first, steps>>

\* A section function returns: page_reports when its loops are over, the
\* others after any number of their blocks.
SectionReturn ==
  /\ Current \in SectionFns
  /\ IF Current = "page_reports" THEN pc.i = Len(report_sections) + 1 ELSE pc.i = 1
  /\ pc' = Return
  /\ UNCHANGED <<doc, last, args, first, steps>>

PageEnd ==
  /\ Current = "page_end"
  /\ LET d == page_end(doc) IN doc' = d /\ last' = Record("page_end", d)
  /\ pc' = Return
  /\ UNCHANGED <<args, first, steps>>

Save ==
  /\ Current = "save"
  /\ LET d == save(doc) IN doc' = d /\ last' = Record("save", d)
  /\ pc' = Return
  /\ UNCHANGED <<args, first, steps>>

NextGen ==
  \/ PageCover
  \/ TocOpen
  \/ TocRow
  \/ TocReturn
  \/ SectionOpen
  \/ SectionGuard
  \/ SectionParagraph
  \/ ReportsSection
  \/ ReportsItem
  \/ SectionReturn
  \/ PageEnd
  \/ Save

\* generate() on a fresh document.
SpecGen == InitPage /\ [][NextGen]_vars

\* generate() has returned.
Finished == pc.fn > Len(GenerateScript)

PageFunctions == {"page_cover", "page_toc", "page_end"} \cup SectionFns

\* The calls generate() has completed.
Ran == {GenerateScript[k] : k \in 1..(pc.fn - 1)}

\* C15 (single write at completion): in generate(), the canvas is saved at
\* most once at any time and exactly once when generate() has returned; the
\* save comes after every page function (cover, TOC, sections 01-14, end
\* page) has run, and no drawing or page operation is issued after it.
C15_SingleWrite ==
  /\ doc.c.saved <= 1
  /\ doc.c.saved = 1 => PageFunctions \subseteq Ran
  /\ Finished => doc.c.saved = 1
  /\ doc.c.late = 0

C15_Witness ==
  /\ Finished
  /\ doc.c.saved = 1
  /\ doc.c.shown > Len(Sections)
  /\ doc.c.page = <<>>

\* C19 as stated (reported page total): when generate() has returned,
\* self.page_num equals the number of pages emitted: the showPage calls
\* issued, the one by which save() flushes the final page included.
C19_PageTotal == Finished => doc.page_num = doc.c.shown


\* C21 as stated (no blank pages): during generate(), every showPage is
\* preceded by at least one drawing operation on the page it emits, so no
\* empty page is emitted.
C21_NoBlankPages == doc.c.blank = 0


AfterNewPage == last.op = "new_page"

\* The page number as the frame draws it: right-aligned, at the bottom.
PageNumberDrawn(n) ==
  [op |-> "drawRightString", x |-> W - MARGIN, y |-> MARGIN - 5, s |-> Fmt02(n),
   font |-> "GeistMono"]

\* C22 (effect of new_page): new_page calls showPage exactly when
\* page_num > 0 before the call (never when page_num = 0), increments
\* page_num by exactly 1, resets self.y to H - MARGIN, and draws the page
\* frame with the new page_num.
C22_NewPageEffect ==
  AfterNewPage =>
    /\ doc.c.shown = last.pre.c.shown + (IF last.pre.page_num > 0 THEN 1 ELSE 0)
    /\ doc.page_num = last.pre.page_num + 1
    /\ doc.y = H - MARGIN
    /\ \E k \in 1..Len(doc.c.page) : doc.c.page[k] = PageNumberDrawn(doc.page_num)
    /\ \A k \in 1..Len(doc.c.page) :
         doc.c.page[k].op = "drawRightString" => doc.c.page[k].s = Fmt02(doc.page_num)
    /\ last.pre.page_num > 0 => doc.c.page[1].op = "rect"

C22_Witness ==
  /\ AfterNewPage
  /\ last.pre.page_num > 0
  /\ last.pre.c.page # <<>>
  /\ last.pre.y < H - MARGIN
  /\ doc.c.shown = 1


\* ------------------------------------------------- the content elements
\* The section headers and content elements, by the name of the method.
ContentOps ==
  { "draw_section_header", "draw_subsection", "draw_sub_subsection",
    "draw_paragraph", "draw_bullet", "draw_numbered_item", "draw_code_text",
    "draw_note_box", "draw_info_box", "draw_table_header", "draw_table_row" }

\* The title of the calls, and the columns of the tables: a column of
\* width 14 leaves max_width = 2 to its cell.
Title == <<"S","t","e","p"," ","1">>

Cols == << <<Title, 14>>, <<Title, 40>> >>

\* The indents passed: the default 15, and one that leaves a column of 15
\* points, in which a text wraps.
Indents == {15, CONTENT_W - 15}

\* The call of a content element on the text t.
Element(op, d, t, indent) ==
  CASE op = "draw_section_header" -> draw_section_header(d, <<"0","1">>, Title, t)
    [] op = "draw_subsection"     -> draw_subsection(d, Title, t)
    [] op = "draw_sub_subsection" -> draw_sub_subsection(d, t)
    [] op = "draw_paragraph"      -> draw_paragraph(d, t, indent)
    [] op = "draw_bullet"         -> draw_bullet(d, t, indent)
    [] op = "draw_numbered_item"  -> draw_numbered_item(d, 12, t, indent)
    [] op = "draw_code_text"      -> draw_code_text(d, t, indent)
    [] op = "draw_note_box"       -> draw_note_box(d, Title, t)
    [] op = "draw_info_box"       -> draw_info_box(d, Title, t)
    [] op = "draw_table_header"   -> draw_table_header(d, << <<t, 14>>, <<Title, 40>> >>)
    [] op = "draw_table_row"      -> draw_table_row(d, <<t, t>>, Cols, indent = 15)

DrawElement(b) ==
  /\ steps < b
  /\ \E op \in ContentOps, indent \in Indents :
       LET d == Element(op, doc, text, indent) IN
       /\ doc' = d
       /\ last' = [op |-> op, pre |-> doc, ret |-> None, draws |-> Added(doc, d),
                   raised |-> FALSE]
  /\ steps' = steps + 1
  /\ UNCHANGED <<args, first, pc>>

\* Amounts the guard is tried with: 70 as page_initial_setup passes, and
\* all that a fresh page offers, and one more.
GuardSizes == {70, H - 2 * MARGIN - 20, H - 2 * MARGIN - 19}

\* The guard of the section functions.
GuardStep(b) ==
  /\ steps < b
  /\ \E needed \in GuardSizes :
       LET d == Guard(doc, needed, <<"S","E","C","-","0","2">>) IN
       /\ doc' = d
       /\ last' = [op |-> "guard", pre |-> doc, ret |-> None, draws |-> Added(doc, d),
                   raised |-> FALSE, needed |-> needed]
  /\ steps' = steps + 1
  /\ UNCHANGED <<args, first, pc>>

CallPageCover(b) ==
  /\ steps < b
  /\ LET d == page_cover(doc) IN doc' = d /\ last' = Record("page_cover", d)
  /\ steps' = steps + 1
  /\ UNCHANGED <<args, first, pc>>

CallPageEnd(b) ==
  /\ steps < b
  /\ LET d == page_end(doc) IN doc' = d /\ last' = Record("page_end", d)
  /\ steps' = steps + 1
  /\ UNCHANGED <<args, first, pc>>

\* Cursors that sequences of content elements leave on a page: exactly 70
\* and just under 70 above the bottom limit, and below the limit.
Cursors == {MARGIN + 20 + 70, MARGIN + 20 + 69, MARGIN + 15}

\* A fresh document, and documents on their first page with the cursor
\* somewhere down the page.
ContentDocs ==
  {NewDoc} \cup {[new_page(NewDoc, <<>>) EXCEPT !.y = v] : v \in Cursors}

\* The texts: the empty one, and one of two lines separated by a newline,
\* which wraps in a column of 15 points.
TwoLines ==
  <<"t","h","e"," ","q","u","i","c","k","\n","b","r","o","w","n"," ","f","o","x">>

ContentTexts == {<<>>, TwoLines}

InitContent ==
  /\ doc \in ContentDocs
  /\ text \in ContentTexts
  /\ x = 50
  /\ y = 100
  /\ max_width = 12
  /\ font = "CrimsonPro"
  /\ leading = 14
  /\ last = NoCall
  /\ first = NoCall
  /\ steps = 0
  /\ pc = Start

NextContent ==
  \/ DrawElement(MaxContentSteps)
  \/ DrawWrappedText(MaxContentSteps)
  \/ CheckSpace(MaxContentSteps)
  \/ GuardStep(MaxContentSteps)
  \/ NewPage(MaxContentSteps)
  \/ CallPageCover(MaxContentSteps)
  \/ CallPageEnd(MaxContentSteps)

\* The methods of the document, called in any order.
SpecContent == InitContent /\ [][NextContent]_vars


\* The operations that count a page; the guard counts one through new_page.
PageOps == {"new_page", "page_cover", "page_end", "guard"}

\* The drawing primitives and content elements the model calls.
NonPageOps == ContentOps \cup {"check_space", "draw_wrapped_text"}

AfterGuard == last.op = "guard"

\* All the room a fresh page offers above the bottom limit.
FreshRoom == H - 2 * MARGIN - 20

\* C24 (guard postcondition): right after the pattern
\* `if not self.check_space(n): self.new_page(code)`, self.y - n >= MARGIN + 20
\* for every n <= H - 2*MARGIN - 20, whatever the cursor was before; for a
\* larger n the pattern starts exactly one new page and leaves
\* self.y = H - MARGIN.
C24_GuardPostcondition ==
  AfterGuard =>
    /\ last.needed <= FreshRoom => doc.y - last.needed >= MARGIN + 20
    /\ last.needed > FreshRoom =>
         /\ doc.page_num = last.pre.page_num + 1
         /\ doc.y = H - MARGIN
    /\ doc.page_num \in {last.pre.page_num, last.pre.page_num + 1}

C24_Witness ==
  /\ AfterGuard
  /\ last.needed = 70
  /\ last.pre.y - last.needed = MARGIN + 19
  /\ doc.page_num = last.pre.page_num + 1
  /\ doc.c.shown = last.pre.c.shown + 1

\* C25 (the cursor descends within a page): every section header and
\* content element leaves self.y strictly smaller than before the call, for
\* every text, the empty one included; self.y increases only through
\* new_page (called directly or by a guard), which resets it to H - MARGIN.
C25_CursorDescends ==
  /\ last.op \in ContentOps => doc.y < last.pre.y
  /\ (last.op # "none" /\ doc.y > last.pre.y) =>
       /\ last.op \in {"new_page", "guard"}
       /\ doc.y = H - MARGIN

C25_Witness ==
  /\ last.op = "draw_bullet"
  /\ text = <<>>
  /\ last.pre.page_num > 0
  /\ doc.y = last.pre.y - 3


====
